---- MODULE Spec2Model ----
(***************************************************************************)
(* A model of winjs-control-apis: the extraction of the control catalog    *)
(* from a declaration graph (getControlsAndProperties in main.js), and the *)
(* deterministic serializer (sortedPrint, sortedPrintArray,                *)
(* sortedPrintObject).                                                     *)
(*                                                                         *)
(* JavaScript values are tagged records.  A JavaScript string is a TLA+    *)
(* string; an object is the sequence of its own enumerable properties in   *)
(* insertion order (the order Object.keys and for-in return for keys that  *)
(* are not array indices); an array is the sequence of its elements.       *)
(***************************************************************************)
EXTENDS Integers, Sequences, FiniteSets, TLC

VARIABLES
    env,            \* result.env: the declaration graph handed to getControlsAndProperties
    i,              \* position of the for-in loop of getControlsAndProperties in env
    j,              \* position of the forEach of getProperties in Object.keys(obj.properties)
    props,          \* the props object getProperties is building
    out,            \* the catalog being built, later printed by main
    missingEvents,  \* the run-scoped object of unknown event names
    pc,             \* where the run is
    diagnostic,     \* the lines console.log printed
    thrown,         \* the value the run threw, undefined while it has thrown nothing
    s,              \* main's output text
    value,          \* the argument of a direct call of sortedPrint
    twin,           \* a value equal to `value` as a mapping, keys inserted in another order
    text,           \* sortedPrint(value)
    twinText        \* sortedPrint(twin)

vars == <<env, i, j, props, out, missingEvents, pc, diagnostic, thrown, s,
          value, twin, text, twinText>>

\* ------------------------------------------------------------------ bounds

\* Longest top-level sequence or mapping handed to sortedPrint directly.
MaxLen == 2
\* Most declarations in a declaration graph, besides the module entry.
MaxDecls == 2

\* ------------------------------------------------------------ JavaScript values

Str(x) == [t |-> "str", s |-> x]
Num(x) == [t |-> "num", n |-> x]
Bool(x) == [t |-> "bool", b |-> x]
Arr(x) == [t |-> "arr", items |-> x]
Obj(x) == [t |-> "obj", entries |-> x]
Undefined == [t |-> "undefined"]
Null == [t |-> "null"]
kv(k, v) == [k |-> k, v |-> v]

Min(a, b) == IF a < b THEN a ELSE b

\* The printable ASCII characters in code order, from 32; the tab stands at
\* the place of the grave accent, which no string of the model holds.
Ascii == " !\"#$%&'()*+,-./0123456789:;<=>?@ABCDEFGHIJKLMNOPQRSTUVWXYZ[\\]^_\tabcdefghijklmnopqrstuvwxyz{|}~"

CodeTable == [c \in {SubSeq(Ascii, k, k) : k \in 1..Len(Ascii)} \cup {"\n"} |->
                IF c = "\n" THEN 10
                ELSE 31 + (CHOOSE k \in 1..Len(Ascii) : SubSeq(Ascii, k, k) = c)]

\* The UTF-16 code unit of the k-th character of x (1-based).
charCodeAt(x, k) == CodeTable[SubSeq(x, k, k)]

fromCharCode(c) == SubSeq(Ascii, c - 31, c - 31)

RECURSIVE StrLessFrom(_, _, _)
StrLessFrom(a, b, k) ==
    IF k > Len(b) THEN FALSE
    ELSE IF k > Len(a) THEN TRUE
    ELSE IF charCodeAt(a, k) # charCodeAt(b, k)
         THEN charCodeAt(a, k) < charCodeAt(b, k)
         ELSE StrLessFrom(a, b, k + 1)

\* a < b on JavaScript strings: by code units, a proper prefix first.
StrLess(a, b) == StrLessFrom(a, b, 1)

toUpperCase(c) ==
    IF charCodeAt(c, 1) >= 97 /\ charCodeAt(c, 1) <= 122
    THEN fromCharCode(charCodeAt(c, 1) - 32) ELSE c

toLowerCaseChar(c) ==
    IF charCodeAt(c, 1) >= 65 /\ charCodeAt(c, 1) <= 90
    THEN fromCharCode(charCodeAt(c, 1) + 32) ELSE c

RECURSIVE toLowerCase(_)
toLowerCase(x) ==
    IF x = "" THEN ""
    ELSE toLowerCaseChar(SubSeq(x, 1, 1)) \o toLowerCase(SubSeq(x, 2, Len(x)))

RECURSIVE NatToString(_)
NatToString(n) ==
    IF n < 10 THEN SubSeq("0123456789", n + 1, n + 1)
    ELSE NatToString(n \div 10) \o SubSeq("0123456789", (n % 10) + 1, (n % 10) + 1)

\* "" + n for an integer n.
NumToString(n) == IF n < 0 THEN "-" \o NatToString(0 - n) ELSE NatToString(n)

\* ToString, as Array.prototype.sort applies it to the elements it compares.
RECURSIVE jsToString(_)
RECURSIVE joinFrom(_, _)
joinFrom(items, k) ==
    IF k > Len(items) THEN ""
    ELSE (IF k > 1 THEN "," ELSE "")
         \o (IF items[k].t \in {"undefined", "null"} THEN "" ELSE jsToString(items[k]))
         \o joinFrom(items, k + 1)

jsToString(v) ==
    CASE v.t = "str" -> v.s
      [] v.t = "num" -> NumToString(v.n)
      [] v.t = "bool" -> (IF v.b THEN "true" ELSE "false")
      [] v.t = "arr" -> joinFrom(v.items, 1)
      [] v.t = "obj" -> "[object Object]"
      [] v.t = "null" -> "null"
      [] OTHER -> "undefined"

\* Array.prototype.sort() with no comparator, on a sequence of [key, item]
\* records, key the string the element is compared by: an insertion sort,
\* which leaves elements of equal key in their order.
RECURSIVE sortByKey(_)
sortByKey(q) ==
    IF q = <<>> THEN <<>>
    ELSE LET front == sortByKey(SubSeq(q, 1, Len(q) - 1))
             x == q[Len(q)]
             at == Cardinality({k \in 1..Len(front) : ~StrLess(x.key, front[k].key)})
         IN  SubSeq(front, 1, at) \o <<x>> \o SubSeq(front, at + 1, Len(front))

\* Mutant of sortKeys: the keys are left in insertion order.
sortKeys_unsorted(keys) == keys

\* keys.sort() of sortedPrintObject.
sortKeys(keys) ==
    LET q == sortByKey([k \in 1..Len(keys) |-> [key |-> keys[k], item |-> keys[k]]])
    IN  [k \in 1..Len(q) |-> q[k].item]

\* array.sort() of sortedPrintArray: the order it leaves the array in.
sortArray(items) ==
    LET q == sortByKey([k \in 1..Len(items) |-> [key |-> jsToString(items[k]), item |-> items[k]]])
    IN  [k \in 1..Len(q) |-> q[k].item]

\* Object.keys(o) of an object value.
Keys(o) == [k \in 1..Len(o.entries) |-> o.entries[k].k]

Has(o, key) == o.t = "obj" /\ \E k \in 1..Len(o.entries) : o.entries[k].k = key

\* o[key]: undefined when o has no such property.
Get(o, key) ==
    IF Has(o, key)
    THEN o.entries[CHOOSE k \in 1..Len(o.entries) : o.entries[k].k = key].v
    ELSE Undefined

\* o[key] = v: a present key keeps its place, a new one goes last.
Put(o, key, v) ==
    IF Has(o, key)
    THEN Obj([k \in 1..Len(o.entries) |->
                IF o.entries[k].k = key THEN kv(key, v) ELSE o.entries[k]])
    ELSE Obj(Append(o.entries, kv(key, v)))

\* ------------------------------------------------------------------ serializer

RECURSIVE indent(_)
indent(n) == IF n > 0 THEN "    " \o indent(n - 1) ELSE ""

RECURSIVE sortedPrint(_, _)
RECURSIVE printItems(_, _, _)
RECURSIVE printPairs(_, _, _, _)

\* The forEach of sortedPrintArray from the k-th element of the sorted array.
printItems(sorted, k, indentCount) ==
    IF k > Len(sorted) THEN ""
    ELSE "\n" \o indent(indentCount) \o sortedPrint(sorted[k], indentCount)
         \o (IF k < Len(sorted) THEN "," ELSE "")
         \o printItems(sorted, k + 1, indentCount)

\* The forEach of sortedPrintObject from the k-th of the sorted keys.
printPairs(obj, keys, k, indentCount) ==
    IF k > Len(keys) THEN ""
    ELSE "\n" \o indent(indentCount) \o keys[k] \o ": "
         \o sortedPrint(Get(obj, keys[k]), indentCount)
         \o (IF k < Len(keys) THEN "," ELSE "")
         \o printPairs(obj, keys, k + 1, indentCount)

sortedPrintArray(array, indentCount) ==
    IF Len(array.items) > 0
    THEN "[" \o printItems(sortArray(array.items), 1, indentCount + 1)
         \o "\n" \o indent(indentCount) \o "]"
    ELSE "[]"

sortedPrintObject(obj, indentCount) ==
    IF Len(obj.entries) > 0
    THEN "{" \o printPairs(obj, sortKeys(Keys(obj)), 1, indentCount + 1)
         \o "\n" \o indent(indentCount) \o "}"
    ELSE "{}"

sortedPrint(obj, indentCount) ==
    CASE obj.t = "bool" -> (IF obj.b THEN "true" ELSE "false")
      [] obj.t = "num" -> NumToString(obj.n)
      [] obj.t = "str" -> "\"" \o obj.s \o "\""
      [] obj.t = "arr" -> sortedPrintArray(obj, indentCount)
      [] obj.t = "obj" -> sortedPrintObject(obj, indentCount)

\* The value an argument of sortedPrint holds when the call returns:
\* array.sort() sorts each array it meets in place, before its elements are
\* printed (and sorted in their turn).
RECURSIVE afterPrint(_)
afterPrint(v) ==
    CASE v.t = "arr" ->
            LET sorted == sortArray(v.items)
            IN  Arr([k \in 1..Len(sorted) |-> afterPrint(sorted[k])])
      [] v.t = "obj" ->
            Obj([k \in 1..Len(v.entries) |->
                    kv(v.entries[k].k, afterPrint(v.entries[k].v))])
      [] OTHER -> v

\* ------------------------------------------------------------ the extraction

startsWith(x, prefix) == SubSeq(x, 1, Min(Len(x), Len(prefix))) = prefix

\* x.split("."), scanning x from its k-th character with `cur` read so far.
RECURSIVE splitFrom(_, _, _)
splitFrom(x, k, cur) ==
    IF k > Len(x) THEN <<cur>>
    ELSE IF SubSeq(x, k, k) = "." THEN <<cur>> \o splitFrom(x, k + 1, "")
    ELSE splitFrom(x, k + 1, cur \o SubSeq(x, k, k))

split(x) == splitFrom(x, 1, "")

\* The conversion to boolean of `if (v)`, `a && b` and `a || b`.
truthy(v) ==
    CASE v.t \in {"undefined", "null"} -> FALSE
      [] v.t = "bool" -> v.b
      [] v.t = "num" -> v.n # 0
      [] v.t = "str" -> v.s # ""
      [] OTHER -> TRUE

\* What a property read of undefined or null throws.
TypeError == [t |-> "TypeError"]

\* o[key] inside a chain of property reads: the read of a property of
\* undefined or null throws, and the chain after it is not evaluated.
Deref(o, key) ==
    IF o.t \in {"undefined", "null", "TypeError"} THEN TypeError ELSE Get(o, key)

isBuiltin(obj) ==
    Get(obj, "type") \in {Str("number"), Str("string"), Str("boolean"), Str("void"), Str("any")}

isType(type, obj) == Get(obj, "type") = Str(type)
isObject(obj) == isType("object", obj)
isReference(obj) == isType("reference", obj)
isEnum(obj) == isType("enum", obj)

isKind(kind, obj) == isObject(obj) /\ Get(Get(obj, "meta"), "kind") = Str(kind)
isInterface(obj) == isKind("interface", obj)
isClass(obj) == isKind("class", obj)

isFunction(obj) ==
    /\ isInterface(obj)
    /\ truthy(Get(obj, "calls"))
    /\ Get(obj, "calls").t = "arr"
    /\ Len(Get(obj, "calls").items) > 0

isEvent(propName) == startsWith(propName, "on")

eventNameCapitalization ==
    Obj(<< kv("onaccessibilityannotationcomplete", Str("onAccessibilityAnnotationComplete")),
           kv("onafterclose", Str("onAfterClose")),
           kv("onafterhide", Str("onAfterHide")),
           kv("onafteropen", Str("onAfterOpen")),
           kv("onaftershow", Str("onAfterShow")),
           kv("onbeforeclose", Str("onBeforeClose")),
           kv("onbeforehide", Str("onBeforeHide")),
           kv("onbeforeopen", Str("onBeforeOpen")),
           kv("onbeforeshow", Str("onBeforeShow")),
           kv("oncancel", Str("onCancel")),
           kv("onchange", Str("onChange")),
           kv("onchildrenprocessed", Str("onChildrenProcessed")),
           kv("onclick", Str("onClick")),
           kv("onclosed", Str("onClosed")),
           kv("oncontentanimating", Str("onContentAnimating")),
           kv("ondatasourcecountchanged", Str("onDataSourceCountChanged")),
           kv("onfootervisibilitychanged", Str("onFooterVisibilityChanged")),
           kv("ongroupheaderinvoked", Str("onGroupHeaderInvoked")),
           kv("onheaderinvoked", Str("onHeaderInvoked")),
           kv("onheadervisibilitychanged", Str("onHeaderVisibilityChanged")),
           kv("oninvoked", Str("onInvoked")),
           kv("onitemanimationend", Str("onItemAnimationEnd")),
           kv("onitemanimationstart", Str("onItemAnimationStart")),
           kv("onitemdragbetween", Str("onItemDragBetween")),
           kv("onitemdragchanged", Str("onItemDragChanged")),
           kv("onitemdragdrop", Str("onItemDragDrop")),
           kv("onitemdragend", Str("onItemDragEnd")),
           kv("onitemdragenter", Str("onItemDragEnter")),
           kv("onitemdragleave", Str("onItemDragLeave")),
           kv("onitemdragstart", Str("onItemDragStart")),
           kv("oniteminvoked", Str("onItemInvoked")),
           kv("onkeyboardnavigating", Str("onKeyboardNavigating")),
           kv("onloadingstatechanged", Str("onLoadingStateChanged")),
           kv("onopened", Str("onOpened")),
           kv("onpagecompleted", Str("onPageCompleted")),
           kv("onpageselected", Str("onPageSelected")),
           kv("onpagevisibilitychanged", Str("onPageVisibilityChanged")),
           kv("onpreviewchange", Str("onPreviewChange")),
           kv("onquerychanged", Str("onQueryChanged")),
           kv("onquerysubmitted", Str("onQuerySubmitted")),
           kv("onreceivingfocusonkeyboardinput", Str("onReceivingFocusOnKeyboardInput")),
           kv("onresultsuggestionchosen", Str("onResultSuggestionChosen")),
           kv("onresultsuggestionschosen", Str("onResultSuggestionsChosen")),
           kv("onselectionchanged", Str("onSelectionChanged")),
           kv("onselectionchanging", Str("onSelectionChanging")),
           kv("onsplittoggle", Str("onSplitToggle")),
           kv("onsuggestionsrequested", Str("onSuggestionsRequested")),
           kv("onzoomchanged", Str("onZoomChanged")) >>)

namespacesToIgnore ==
    << "WinJS.UI.DOMEventMixin", "WinJS.UI.HtmlControl", "WinJS.UI.Layout",
       "WinJS.UI.MediaElementAdapter", "WinJS.UI.MediaPlayer", "WinJS.UI.Repeater",
       "WinJS.UI.SettingsFlyout", "WinJS.UI.StorageDataSource", "WinJS.UI.TabContainer",
       "WinJS.UI.ViewBox", "WinJS.UI.VirtualizedDataSource" >>

\* namespacesToIgnore.indexOf(name) === -1
notIgnored(name) == \A k \in 1..Len(namespacesToIgnore) : namespacesToIgnore[k] # name

\* Mutant of keepNamespace: the list of ignored namespaces is not consulted.
keepNamespace_noIgnore(name, obj) == isClass(obj) /\ startsWith(name, "WinJS.UI.")

keepNamespace(name, obj) ==
    isClass(obj) /\ startsWith(name, "WinJS.UI.") /\ notIgnored(name)

eventTypeInfo ==
    Obj(<< kv("name", Str("Function")), kv("type", Str("reference")),
           kv("typeArguments", Arr(<<>>)) >>)

lastOf(parts) == parts[Len(parts)]

\* enums[name].map(...): the last dot segment of each member, in the order
\* of enums[name].
getEnumTypeInfo(enums, name) ==
    LET members == Get(enums, name).items
    IN  Obj(<< kv("type", Str("enum")),
               kv("values", Arr([k \in 1..Len(members) |->
                                    Str(lastOf(split(members[k].s)))])) >>)

\* The value returned (an enum description or null), or TypeError when a
\* property read on the way throws.
getStringBasedEnumTypeInfo(e, namespace, propName) ==
    LET parts == split(namespace)
    IN  IF startsWith(namespace, "WinJS.UI.") /\ Len(parts) = 3
        THEN LET controlName == lastOf(parts)
                 theClass == Deref(Deref(Deref(Get(e, "module:WinJS.UI"), "object"),
                                         "properties"), controlName)
                 name == toUpperCase(SubSeq(propName, 1, 1)) \o SubSeq(propName, 2, Len(propName))
                 enumDef == Deref(Deref(Deref(theClass, "type"), "properties"), name)
                 members == Deref(Deref(enumDef, "type"), "properties")
             IN  IF theClass = TypeError THEN TypeError
                 ELSE IF ~truthy(theClass) THEN Null
                 ELSE IF enumDef = TypeError THEN TypeError
                 ELSE IF ~truthy(enumDef) THEN Null
                 \* Object.keys(undefined) throws as well
                 ELSE IF members.t \in {"TypeError", "undefined", "null"} THEN TypeError
                 ELSE Obj(<< kv("type", Str("enum")),
                             kv("values", Arr(IF members.t = "obj"
                                              THEN [k \in 1..Len(members.entries) |->
                                                        Str(members.entries[k].k)]
                                              ELSE <<>>)) >>)
        ELSE Null

RECURSIVE pad(_)
pad(n) == IF n > 0 THEN "  " \o pad(n - 1) ELSE ""

\* JSON.stringify(v, null, 2), depth levels deep in the output.
RECURSIVE JSONstringify(_, _)
RECURSIVE stringifyFrom(_, _, _)
stringifyFrom(v, k, depth) ==
    LET n == IF v.t = "arr" THEN Len(v.items) ELSE Len(v.entries)
    IN  IF k > n THEN ""
        ELSE "\n" \o pad(depth + 1)
             \o (IF v.t = "arr" THEN JSONstringify(v.items[k], depth + 1)
                 ELSE "\"" \o v.entries[k].k \o "\": "
                      \o JSONstringify(v.entries[k].v, depth + 1))
             \o (IF k < n THEN "," ELSE "")
             \o stringifyFrom(v, k + 1, depth)

JSONstringify(v, depth) ==
    CASE v.t = "str" -> "\"" \o v.s \o "\""
      [] v.t = "num" -> NumToString(v.n)
      [] v.t = "bool" -> (IF v.b THEN "true" ELSE "false")
      [] v.t = "arr" -> IF v.items = <<>> THEN "[]"
                        ELSE "[" \o stringifyFrom(v, 1, depth) \o "\n" \o pad(depth) \o "]"
      [] v.t = "obj" -> IF v.entries = <<>> THEN "{}"
                        ELSE "{" \o stringifyFrom(v, 1, depth) \o "\n" \o pad(depth) \o "}"
      [] OTHER -> "null"

\* Mutant of addEvent: the event is stored under the declared name.
addEvent_raw(ps, propName) == Put(ps, propName, eventTypeInfo)

\* props[capitalizedEventName] = eventTypeInfo
addEvent(ps, propName) ==
    Put(ps, Get(eventNameCapitalization, propName).s, eventTypeInfo)

\* Mutant of addMissing: the name is lowercased before it is recorded.
addMissing_lowercased(m, propName) == Put(m, toLowerCase(propName), Bool(TRUE))

\* missingEvents[propName] = true
addMissing(m, propName) == Put(m, propName, Bool(TRUE))

\* Mutant of diagnosticLines: the names are logged in insertion order.
diagnosticLines_unsorted(m) ==
    LET names == Keys(m)
        len == Len(Keys(m))
    IN  <<"Unknown capitalization for the following events. Please update eventNameCapitalization to include these events:">>
        \o [k \in 1..Len(names) |->
                "  " \o names[k] \o ": \"" \o names[k] \o "\"" \o (IF k = len THEN "" ELSE ",")]

\* The lines console.log prints before the run throws: the header, then one
\* line for each of Object.keys(missingEvents).sort(), the last without comma.
diagnosticLines(m) ==
    LET names == sortKeys(Keys(m))
        len == Len(Keys(m))
    IN  <<"Unknown capitalization for the following events. Please update eventNameCapitalization to include these events:">>
        \o [k \in 1..Len(names) |->
                "  " \o names[k] \o ": \"" \o names[k] \o "\"" \o (IF k = len THEN "" ELSE ",")]

\* ----------------------------------------------------- declaration graphs
\* The shapes the type environment provider (tscore) gives: a type is an
\* object with a "type" tag; an object type has meta.kind, properties (name
\* to {type}) and calls; an enum type names an entry of result.enums.

builtin(type) == Obj(<<kv("type", Str(type))>>)
reference(name) ==
    Obj(<<kv("type", Str("reference")), kv("name", Str(name)), kv("typeArguments", Arr(<<>>))>>)
enumType(name) == Obj(<<kv("type", Str("enum")), kv("name", Str(name))>>)
objectType(kind, properties, calls) ==
    Obj(<< kv("type", Str("object")), kv("meta", Obj(<<kv("kind", Str(kind))>>)),
           kv("properties", Obj(properties)), kv("calls", Arr(calls)) >>)
function == objectType("interface", <<>>, <<Obj(<<kv("parameters", Arr(<<>>))>>)>>)
property(name, type) == kv(name, Obj(<<kv("type", type)>>))
declaration(name, object) == kv(name, Obj(<<kv("object", object)>>))

\* result.enums
enums ==
    Obj(<< kv("WinJS.UI.Foo.Mode", Arr(<<Str("WinJS.UI.Foo.Mode.b"), Str("WinJS.UI.Foo.Mode.a")>>)),
           kv("WinJS.UI.Qux.Switch", Arr(<<Str("WinJS.UI.Qux.Switch.on"), Str("WinJS.UI.Qux.Switch.off")>>)) >>)

\* The module WinJS.UI: the static side of Foo (Mode, no Title), of Bar
\* (Placement) and of Zap (Level, a number); Baz has none.
moduleEntry ==
    declaration("module:WinJS.UI", objectType("module",
        << property("Foo", objectType("interface",
                <<property("Mode", objectType("interface",
                        <<property("x", builtin("string")), property("y", builtin("string"))>>, <<>>))>>,
                <<>>)),
           property("Bar", objectType("interface",
                <<property("Placement", objectType("interface",
                        <<property("top", builtin("string")), property("bottom", builtin("string"))>>, <<>>))>>,
                <<>>)),
           property("Zap", objectType("interface",
                <<property("Level", builtin("number"))>>, <<>>)) >>,
        <<>>))

DeclPool ==
    << declaration("WinJS.UI.Foo", objectType("class",
        << property("title", builtin("string")), property("onclick", function),
           property("mode", enumType("WinJS.UI.Foo.Mode")), property("dispose", function),
           property("element", reference("HTMLElement")) >>, <<>>)),
      declaration("WinJS.UI.Bar", objectType("class",
        << property("placement", builtin("string")), property("onWhoosh", function),
           property("count", builtin("number")) >>, <<>>)),
      declaration("WinJS.UI.Baz", objectType("class",
        << property("onblur", function), property("label", builtin("string")),
           property("onWhoosh", function), property("onzoomchanged", function) >>, <<>>)),
      declaration("WinJS.UI.Layout", objectType("class",
        << property("onlayout", function), property("orientation", builtin("string")) >>, <<>>)),
      declaration("WinJS.Binding.List", objectType("class",
        << property("length", builtin("number")) >>, <<>>)),
      declaration("WinJS.UI.IThing", objectType("interface",
        << property("id", builtin("string")) >>, <<>>)),
      declaration("WinJS.UI.Qux", objectType("class",
        << property("onOff", enumType("WinJS.UI.Qux.Switch")),
           property("anchorElement", builtin("any")),
           property("online", builtin("string")) >>, <<>>)),
      declaration("WinJS.UI.Zap", objectType("class",
        << property("level", builtin("string")) >>, <<>>)),
      declaration("WinJS.UI.Odd", objectType("class",
        << property("name", builtin("string")),
           property("data", Obj(<<kv("type", Str("type-param")), kv("name", Str("T"))>>)),
           property("size", builtin("number")) >>, <<>>)),
      declaration("WinJS.UI.Pages.Sub", objectType("class",
        << property("kind", builtin("string")), property("onclosed", function) >>, <<>>)) >>

SeqsUpTo(S, n) == UNION {[1..m -> S] : m \in 0..n}

Injective(q) == \A a, b \in 1..Len(q) : a # b => q[a] # q[b]

\* The declaration graph of the module entry and the declarations of
\* DeclPool at the places q, in that order.
EnvOf(q) == Obj(<<moduleEntry>> \o [k \in 1..Len(q) |-> DeclPool[q[k]]])

\* Up to MaxDecls places of DeclPool, each at most once, in every order.
Choices == {q \in SeqsUpTo(1..Len(DeclPool), MaxDecls) : Injective(q)}

\* --------------------------------------------- getControlsAndProperties, main

namespace == Keys(env)[i]
obj == Get(Get(env, namespace), "object")
propNames == Keys(Get(obj, "properties"))
propName == propNames[j]
p == Get(Get(Get(obj, "properties"), propName), "type")

accepted == isBuiltin(p) \/ isReference(p) \/ isEnum(p) \/ isFunction(p)

Init ==
    /\ \E q \in Choices : env = EnvOf(q)
    /\ i = 1
    /\ j = 0
    /\ props = Obj(<<>>)
    /\ out = Obj(<<>>)
    /\ missingEvents = Obj(<<>>)
    /\ pc = "loop"
    /\ diagnostic = <<>>
    /\ thrown = Undefined
    /\ s = ""
    /\ value = Undefined /\ twin = Undefined /\ text = "" /\ twinText = ""

printVars == <<value, twin, text, twinText>>

\* for (var namespace in env): a declaration keepNamespace refuses.
SkipNamespace ==
    /\ pc = "loop" /\ i <= Len(Keys(env))
    /\ ~keepNamespace(namespace, obj)
    /\ i' = i + 1
    /\ UNCHANGED <<env, j, props, out, missingEvents, pc, diagnostic, thrown, s, printVars>>

\* A kept declaration: getProperties(namespace, obj) starts with props = {}.
EnterControl ==
    /\ pc = "loop" /\ i <= Len(Keys(env))
    /\ keepNamespace(namespace, obj)
    /\ props' = Obj(<<>>)
    /\ j' = 1
    /\ pc' = "props"
    /\ UNCHANGED <<env, i, out, missingEvents, diagnostic, thrown, s, printVars>>

AtProperty == pc = "props" /\ j <= Len(propNames)

\* An "on" name the table holds: stored under the table's name.
EventHit ==
    /\ AtProperty /\ accepted /\ isEvent(propName)
    /\ truthy(Get(eventNameCapitalization, propName))
    /\ props' = addEvent(props, propName)
    /\ j' = j + 1
    /\ UNCHANGED <<env, i, out, missingEvents, pc, diagnostic, thrown, s, printVars>>

\* An "on" name the table does not hold: recorded, and the forEach goes on.
EventMiss ==
    /\ AtProperty /\ accepted /\ isEvent(propName)
    /\ ~truthy(Get(eventNameCapitalization, propName))
    /\ missingEvents' = addMissing(missingEvents, propName)
    /\ j' = j + 1
    /\ UNCHANGED <<env, i, props, out, pc, diagnostic, thrown, s, printVars>>

EnumProperty ==
    /\ AtProperty /\ accepted /\ ~isEvent(propName) /\ isEnum(p)
    /\ props' = Put(props, propName, getEnumTypeInfo(enums, Get(p, "name").s))
    /\ j' = j + 1
    /\ UNCHANGED <<env, i, out, missingEvents, pc, diagnostic, thrown, s, printVars>>

\* p.type === "string": the convention's enum, or p itself when it gives null.
StringProperty ==
    /\ AtProperty /\ accepted /\ ~isEvent(propName) /\ ~isEnum(p)
    /\ Get(p, "type") = Str("string")
    /\ LET info == getStringBasedEnumTypeInfo(env, namespace, propName)
       IN  /\ info # TypeError
           /\ props' = Put(props, propName, IF truthy(info) THEN info ELSE p)
    /\ j' = j + 1
    /\ UNCHANGED <<env, i, out, missingEvents, pc, diagnostic, thrown, s, printVars>>

\* A property read inside getStringBasedEnumTypeInfo throws: the run ends.
StringPropertyThrows ==
    /\ AtProperty /\ accepted /\ ~isEvent(propName) /\ ~isEnum(p)
    /\ Get(p, "type") = Str("string")
    /\ getStringBasedEnumTypeInfo(env, namespace, propName) = TypeError
    /\ thrown' = TypeError
    /\ pc' = "threw"
    /\ UNCHANGED <<env, i, j, props, out, missingEvents, diagnostic, s, printVars>>

PassThrough ==
    /\ AtProperty /\ accepted /\ ~isEvent(propName) /\ ~isEnum(p)
    /\ Get(p, "type") # Str("string")
    /\ ~isFunction(p)
    /\ props' = Put(props, propName, p)
    /\ j' = j + 1
    /\ UNCHANGED <<env, i, out, missingEvents, pc, diagnostic, thrown, s, printVars>>

\* All functions, other than events, are ignored.
IgnoreFunction ==
    /\ AtProperty /\ accepted /\ ~isEvent(propName) /\ ~isEnum(p)
    /\ Get(p, "type") # Str("string")
    /\ isFunction(p)
    /\ j' = j + 1
    /\ UNCHANGED <<env, i, props, out, missingEvents, pc, diagnostic, thrown, s, printVars>>

NotYetImplemented ==
    /\ AtProperty /\ ~accepted
    /\ thrown' = Str("getControlsAndProperties getProperties NYI: " \o JSONstringify(p, 0))
    /\ pc' = "threw"
    /\ UNCHANGED <<env, i, j, props, out, missingEvents, diagnostic, s, printVars>>

\* getProperties returns: out[lastPart] = props, and the for-in goes on.
ReturnProps ==
    /\ pc = "props" /\ j > Len(propNames)
    /\ out' = Put(out, lastOf(split(namespace)), props)
    /\ i' = i + 1
    /\ pc' = "loop"
    /\ UNCHANGED <<env, j, props, missingEvents, diagnostic, thrown, s, printVars>>

\* After the loop, with unknown events: they are logged and the run throws.
FailMissingEvents ==
    /\ pc = "loop" /\ i > Len(Keys(env))
    /\ Len(Keys(missingEvents)) > 0
    /\ diagnostic' = diagnosticLines(missingEvents)
    /\ thrown' = Str("Unknown capitalization for some events.")
    /\ pc' = "failed"
    /\ UNCHANGED <<env, i, j, props, out, missingEvents, s, printVars>>

\* After the loop, with none: return out.
ReturnCatalog ==
    /\ pc = "loop" /\ i > Len(Keys(env))
    /\ Len(Keys(missingEvents)) = 0
    /\ pc' = "returned"
    /\ UNCHANGED <<env, i, j, props, out, missingEvents, diagnostic, thrown, s, printVars>>

\* main: s = "var RawControlApis = " + sortedPrint(output) + ";", printed;
\* the call sorts the arrays of output in place.
main ==
    /\ pc = "returned"
    /\ s' = "var RawControlApis = " \o sortedPrint(out, 0) \o ";"
    /\ out' = afterPrint(out)
    /\ pc' = "printed"
    /\ UNCHANGED <<env, i, j, props, missingEvents, diagnostic, thrown, printVars>>

Next ==
    \/ SkipNamespace
    \/ EnterControl
    \/ EventHit
    \/ EventMiss
    \/ EnumProperty
    \/ StringProperty
    \/ StringPropertyThrows
    \/ PassThrough
    \/ IgnoreFunction
    \/ NotYetImplemented
    \/ ReturnProps
    \/ FailMissingEvents
    \/ ReturnCatalog
    \/ main

Spec == Init /\ [][Next]_vars

\* ------------------------------------------- direct calls of sortedPrint

\* The elements and member values the printed values are built from.
Pool ==
    { Str("a"), Str("a!"), Num(5), Num(10), Bool(TRUE),
      Arr(<<Num(2), Num(1)>>), Arr(<<Num(1), Num(3)>>), Arr(<<>>),
      Obj(<<kv("b", Num(1)), kv("a", Num(2))>>), Obj(<<>>) }

KeyPool == {"b", "a", "B"}

\* Arrays of up to MaxLen elements, and objects of up to MaxLen properties
\* (an object holds a key once), in every insertion order.
TestValues ==
    Pool
    \cup {Arr(q) : q \in SeqsUpTo(Pool, MaxLen)}
    \cup UNION {{Obj([k \in 1..Len(ks) |-> kv(ks[k], vs[k])]) : vs \in [1..Len(ks) -> Pool]} :
                    ks \in {q \in SeqsUpTo(KeyPool, MaxLen) : Injective(q)}}

Bijections(n) == {perm \in [1..n -> 1..n] : \A a, b \in 1..n : a # b => perm[a] # perm[b]}

\* The values equal to v as nested mappings and sequences: at every object
\* the same keys with equal values, inserted in any order.
RECURSIVE Reorderings(_)
Reorderings(v) ==
    CASE v.t = "obj" ->
            LET e == v.entries
                n == Len(e)
                inner == {f \in [1..n -> UNION {Reorderings(e[k].v) : k \in 1..n}] :
                            \A k \in 1..n : f[k] \in Reorderings(e[k].v)}
            IN  {Obj([k \in 1..n |-> kv(e[perm[k]].k, f[perm[k]])]) :
                    perm \in Bijections(n), f \in inner}
      [] v.t = "arr" ->
            LET e == v.items
                n == Len(e)
            IN  {Arr(f) : f \in {g \in [1..n -> UNION {Reorderings(e[k]) : k \in 1..n}] :
                                    \A k \in 1..n : g[k] \in Reorderings(e[k])}}
      [] OTHER -> {v}

Idle ==
    /\ env = Obj(<<>>) /\ i = 0 /\ j = 0 /\ props = Obj(<<>>) /\ out = Obj(<<>>)
    /\ missingEvents = Obj(<<>>) /\ diagnostic = <<>> /\ thrown = Undefined /\ s = ""

InitPrint ==
    /\ Idle
    /\ pc = "built"
    /\ value \in TestValues
    /\ twin \in Reorderings(value)
    /\ text = ""
    /\ twinText = ""

\* sortedPrint(value) and sortedPrint(twin), each with its effect on its argument.
PrintValue ==
    /\ pc = "built"
    /\ text' = sortedPrint(value, 0)
    /\ twinText' = sortedPrint(twin, 0)
    /\ value' = afterPrint(value)
    /\ twin' = afterPrint(twin)
    /\ pc' = "printed"
    /\ UNCHANGED <<env, i, j, props, out, missingEvents, diagnostic, thrown, s>>

NextPrint == PrintValue

SpecPrint == InitPrint /\ [][NextPrint]_vars

\* ------------------------------- the name-list generator (unnamed/part_000)
\* The earlier generator: its catalog maps a control to the array of its
\* property names.  It is a function of the declaration graph alone.

endsWith(x, suffix) ==
    Len(x) >= Len(suffix) /\ SubSeq(x, Len(x) - Len(suffix) + 1, Len(x)) = suffix

keepProperty(propertyName) == ~endsWith(toLowerCase(propertyName), "element")

\* Its table and its list are those of main.js less the entries added since.
eventNameCapitalization_part000 ==
    Obj(SelectSeq(eventNameCapitalization.entries,
                  LAMBDA e : e.k \notin {"onaccessibilityannotationcomplete", "onafterclose",
                                         "onafteropen", "onclick", "onfootervisibilitychanged",
                                         "onheadervisibilitychanged", "onresultsuggestionchosen"}))

namespacesToIgnore_part000 ==
    SelectSeq(namespacesToIgnore,
              LAMBDA n : n \notin {"WinJS.UI.MediaElementAdapter", "WinJS.UI.MediaPlayer"})

keepNamespace_part000(name, o) ==
    /\ isClass(o) /\ startsWith(name, "WinJS.UI.")
    /\ \A k \in 1..Len(namespacesToIgnore_part000) : namespacesToIgnore_part000[k] # name

\* The forEach of its getProperties from the k-th property of o: the names
\* pushed to props (a type it does not know makes the run throw instead).
RECURSIVE pushedFrom(_, _)
pushedFrom(o, k) ==
    LET names == Keys(Get(o, "properties"))
        pn == names[k]
        ty == Get(Get(Get(o, "properties"), pn), "type")
    IN  IF k > Len(names) THEN <<>>
        ELSE (IF isBuiltin(ty) \/ isReference(ty) \/ isEnum(ty)
              THEN (IF keepProperty(pn) THEN <<Str(pn)>> ELSE <<>>)
              ELSE IF isFunction(ty) /\ isEvent(pn)
                      /\ truthy(Get(eventNameCapitalization_part000, pn))
                   THEN <<Get(eventNameCapitalization_part000, pn)>>
                   ELSE <<>>)
             \o pushedFrom(o, k + 1)

getProperties_part000(o) == Arr(pushedFrom(o, 1))

\* ------------------------------------------------------------------ claims

Range(q) == {q[k] : k \in 1..Len(q)}

\* The declarations the Namespace Filter is to select: class-role objects
\* under the root prefix that the ExclusionSet does not name.
ExclusionSet == Range(namespacesToIgnore)

SelectedNames ==
    {n \in Range(Keys(env)) :
        /\ Get(Get(Get(env, n), "object"), "type") = Str("object")
        /\ Get(Get(Get(Get(env, n), "object"), "meta"), "kind") = Str("class")
        /\ Len(n) >= Len("WinJS.UI.") /\ SubSeq(n, 1, Len("WinJS.UI.")) = "WinJS.UI."
        /\ n \notin ExclusionSet}

LastSegment(n) == lastOf(split(n))

\* The properties of declaration n, as name -> type.
PropsOf(n) == Get(Get(Get(env, n), "object"), "properties")
PropNamesOf(n) == Range(Keys(PropsOf(n)))
TypeOf(n, pn) == Get(Get(PropsOf(n), pn), "type")

\* The selected controls getProperties has returned for, whose entry is in out.
Catalogued == {n \in SelectedNames : Has(out, LastSegment(n))}
EntryOf(n) == Get(out, LastSegment(n))

CatalogReturned == pc \in {"returned", "printed"}

\* C3: the keys of the returned catalog are exactly the last segments of the
\* class declarations under "WinJS.UI." that the ExclusionSet does not name;
\* an excluded declaration contributes no entry.
C3_CatalogKeys ==
    /\ Range(Keys(out)) \subseteq {LastSegment(n) : n \in SelectedNames}
    /\ CatalogReturned => Range(Keys(out)) = {LastSegment(n) : n \in SelectedNames}

C3_Witness ==
    /\ pc = "returned"
    /\ Has(env, "WinJS.UI.Layout") /\ Has(env, "WinJS.UI.Foo")
    /\ isClass(Get(Get(env, "WinJS.UI.Layout"), "object"))
    /\ Keys(out) = <<"Foo">>

KnownEvent(n, pn) ==
    isFunction(TypeOf(n, pn)) /\ isEvent(pn) /\ Has(eventNameCapitalization, pn)
Method(n, pn) == isFunction(TypeOf(n, pn)) /\ ~isEvent(pn)
Canonical(pn) == Get(eventNameCapitalization, pn).s

\* C4: in the entry of every selected control, an "on" function property the
\* table holds is present under the table's name with the event marker and
\* absent under its raw name; an ordinary method is a key under no name:
\* every key is the name, or the table's name, of a property that is no method.
C4_EventNames ==
    \A n \in Catalogued :
        /\ \A pn \in PropNamesOf(n) :
              KnownEvent(n, pn) =>
                  /\ Get(EntryOf(n), Canonical(pn)) = eventTypeInfo
                  /\ ~Has(EntryOf(n), pn)
        /\ \A pn \in PropNamesOf(n) : Method(n, pn) => ~Has(EntryOf(n), pn)
        /\ \A key \in Range(Keys(EntryOf(n))) :
              \E pn \in PropNamesOf(n) :
                  /\ ~Method(n, pn)
                  /\ \/ key = pn
                     \/ Has(eventNameCapitalization, pn) /\ key = Canonical(pn)

C4_Witness ==
    /\ pc = "returned"
    /\ "WinJS.UI.Foo" \in Catalogued
    /\ KnownEvent("WinJS.UI.Foo", "onclick") /\ Method("WinJS.UI.Foo", "dispose")
    /\ Get(EntryOf("WinJS.UI.Foo"), "onClick") = eventTypeInfo

\* The unknown events of a run: the "on" function properties of the selected
\* controls that the table does not hold.
UnknownEvents ==
    UNION {{pn \in PropNamesOf(n) :
                isFunction(TypeOf(n, pn)) /\ isEvent(pn) /\ ~Has(eventNameCapitalization, pn)} :
            n \in SelectedNames}

FirstColon(line) ==
    CHOOSE k \in 1..Len(line) :
        /\ SubSeq(line, k, k) = ":"
        /\ \A m \in 1..(k - 1) : SubSeq(line, m, m) # ":"

\* The event name a line of the diagnostic gives: between its two leading
\* blanks and its first colon.
NameOnLine(line) == SubSeq(line, 3, FirstColon(line) - 1)

\* The names the diagnostic lists, in its order (its first line is the header).
DiagnosticNames == [k \in 1..(Len(diagnostic) - 1) |-> NameOnLine(diagnostic[k + 1])]

\* C5: a miss leaves the run traversing; the run fails for unknown events
\* only after every selected control has been traversed, the diagnostic then
\* lists every unknown event name, each once and in ascending order, and no
\* catalog is returned; a catalog is returned only when there is none.
C5_BatchValidation ==
    /\ (Len(Keys(missingEvents)) > 0 /\ thrown = Undefined) => pc \in {"loop", "props"}
    /\ pc = "failed" =>
          /\ i > Len(Keys(env))
          /\ Catalogued = SelectedNames
          /\ s = ""
          /\ UnknownEvents \subseteq Range(DiagnosticNames)
          /\ \A k \in 1..Len(DiagnosticNames) :
                /\ diagnostic[k + 1] = "  " \o DiagnosticNames[k] \o ": \"" \o DiagnosticNames[k]
                                        \o "\"" \o (IF k = Len(DiagnosticNames) THEN "" ELSE ",")
                /\ k > 1 => StrLess(DiagnosticNames[k - 1], DiagnosticNames[k])
    /\ CatalogReturned => (UnknownEvents = {} /\ Keys(missingEvents) = <<>>)
    /\ (UnknownEvents # {} /\ pc \notin {"loop", "props"}) => pc \in {"failed", "threw"}

C5_Witness ==
    /\ pc = "failed"
    /\ Keys(env) = <<"module:WinJS.UI", "WinJS.UI.Baz", "WinJS.UI.Bar">>
    /\ Keys(missingEvents) = <<"onblur", "onWhoosh">>
    /\ DiagnosticNames = <<"onWhoosh", "onblur">>

\* The value set strategy (a) gives an enum type: the last dot segment of
\* each member result.enums lists for it, in declaration order.
DirectEnum(ty) ==
    LET members == Get(enums, Get(ty, "name").s).items
    IN  Obj(<< kv("type", Str("enum")),
               kv("values", Arr([k \in 1..Len(members) |-> Str(LastSegment(members[k].s))])) >>)

\* C6: in the entry of every selected control, every property whose type is
\* tagged enum is recorded under its own name with the direct-enum value
\* set, whatever its name.  (Stated of the catalog before main prints it.)
C6_EnumPrecedence ==
    pc # "printed" =>
        \A n \in Catalogued : \A pn \in PropNamesOf(n) :
            isEnum(TypeOf(n, pn)) => Get(EntryOf(n), pn) = DirectEnum(TypeOf(n, pn))

\* The static helper of a control directly under the root, and the member
\* the convention derives from a property name.
Helper(n) ==
    Get(Get(Get(Get(env, "module:WinJS.UI"), "object"), "properties"), LastSegment(n))
DerivedName(pn) == toUpperCase(SubSeq(pn, 1, 1)) \o SubSeq(pn, 2, Len(pn))
DerivedMember(n, pn) == Get(Get(Get(Helper(n), "type"), "properties"), DerivedName(pn))
ConventionResolves(n, pn) ==
    /\ Len(split(n)) = 3
    /\ Helper(n) # Undefined
    /\ DerivedMember(n, pn) # Undefined
MemberNames(n, pn) ==
    LET members == Get(Get(DerivedMember(n, pn), "type"), "properties")
    IN  IF members.t = "obj" THEN [k \in 1..Len(members.entries) |-> Str(members.entries[k].k)]
        ELSE <<>>

\* C7: no string property makes the run fail; in the entry of every selected
\* control a string property whose convention does not resolve is recorded
\* as its own type, unchanged, and one whose helper and derived member both
\* exist is recorded with the member's own property names as value set.
C7_StringEnumFallback ==
    /\ thrown # TypeError
    /\ pc # "printed" =>
          \A n \in Catalogued : \A pn \in PropNamesOf(n) :
              TypeOf(n, pn) = builtin("string") =>
                  IF ConventionResolves(n, pn)
                  THEN Get(EntryOf(n), pn) =
                          Obj(<<kv("type", Str("enum")), kv("values", Arr(MemberNames(n, pn)))>>)
                  ELSE Get(EntryOf(n), pn) = TypeOf(n, pn)

\* A name the Property Classifier is to exclude: lowercased, it ends in "element".
ElementName(pn) ==
    /\ Len(pn) >= Len("element")
    /\ SubSeq(toLowerCase(pn), Len(pn) - Len("element") + 1, Len(pn)) = "element"

\* C8: in the entry of every selected control a builtin, reference or enum
\* property whose lowercased name ends in "element" is absent, and every
\* other builtin or reference property that is no disguised enum is present
\* under its own name.
C8_ElementExcluded ==
    \A n \in Catalogued : \A pn \in PropNamesOf(n) :
        LET ty == TypeOf(n, pn)
        IN  /\ (isBuiltin(ty) \/ isReference(ty) \/ isEnum(ty)) /\ ElementName(pn)
                => ~Has(EntryOf(n), pn)
            /\ ((isBuiltin(ty) \/ isReference(ty)) /\ ~ElementName(pn)
                    /\ ~(ty = builtin("string") /\ ConventionResolves(n, pn)))
                => Has(EntryOf(n), pn)

\* The same of the name-list generator, whose entry of a control is the array
\* of the names it keeps: there the exclusion holds, of every declaration
\* graph of the model.
ElementExcluded_part000 ==
    \A n \in Range(Keys(env)) :
        LET o == Get(Get(env, n), "object")
            listed == Range(getProperties_part000(o).items)
        IN  keepNamespace_part000(n, o) =>
                \A pn \in PropNamesOf(n) :
                    LET ty == TypeOf(n, pn)
                    IN  (isBuiltin(ty) \/ isReference(ty) \/ isEnum(ty)) =>
                            (Str(pn) \in listed <=> ~ElementName(pn))

Names(pn, last) == "  " \o pn \o ": \"" \o pn \o "\"" \o (IF last THEN "" ELSE ",")
DiagnosticNaming(pn) ==
    \E k \in 2..Len(diagnostic) : diagnostic[k] \in {Names(pn, TRUE), Names(pn, FALSE)}

\* A selected control has the function property onWhoosh, which the table
\* does not hold.
HasOnWhoosh ==
    \E n \in SelectedNames :
        /\ "onWhoosh" \in PropNamesOf(n)
        /\ isFunction(TypeOf(n, "onWhoosh"))
        /\ ~Has(eventNameCapitalization, "onWhoosh")

\* C9 as stated: the run of a graph with such a control fails with a
\* diagnostic naming the lowercased name, onwhoosh.
C9_LowercasedName ==
    (HasOnWhoosh /\ pc = "failed") => DiagnosticNaming("onwhoosh")

\* C9 as amended: such a run returns no catalog, and when it fails for its
\* unknown events the diagnostic names onWhoosh as declared, and does not
\* name onwhoosh.
C9_DeclaredName ==
    HasOnWhoosh =>
        /\ ~CatalogReturned
        /\ pc = "failed" => (DiagnosticNaming("onWhoosh") /\ ~DiagnosticNaming("onwhoosh"))

C9_Witness ==
    /\ pc = "failed"
    /\ Keys(env) = <<"module:WinJS.UI", "WinJS.UI.Bar">>
    /\ Keys(EntryOf("WinJS.UI.Bar")) = <<"placement", "count">>
    /\ diagnostic[2] = "  onWhoosh: \"onWhoosh\""

\* C10: a call of sortedPrint leaves its argument unchanged: main's call
\* leaves the catalog as it was returned.
C10_PrintLeavesCatalog == [][pc' = "printed" => out' = out]_vars

\* The place of the first occurrence of pat in x, 0 when there is none.
IndexOf(x, pat) ==
    LET at == {k \in 1..(Len(x) - Len(pat) + 1) : SubSeq(x, k, k + Len(pat) - 1) = pat}
    IN  IF at = {} THEN 0 ELSE CHOOSE k \in at : \A m \in at : k <= m

\* The line that opens the pair of key k in a mapping printed n levels deep.
KeyLine(k, n) == "\n" \o indent(n) \o k \o ": "

\* In x, the printed form of mapping o at depth n, every key of o has its
\* line, and the lines stand in strictly ascending order of the keys.
KeysAscendIn(x, o, n) ==
    \A a, b \in Range(Keys(o)) :
        /\ IndexOf(x, KeyLine(a, n)) > 0
        /\ StrLess(a, b) => IndexOf(x, KeyLine(a, n)) < IndexOf(x, KeyLine(b, n))

\* The values directly inside v.
Children(v) ==
    CASE v.t = "arr" -> Range(v.items)
      [] v.t = "obj" -> {v.entries[k].v : k \in 1..Len(v.entries)}
      [] OTHER -> {}

\* C1: two values equal as mappings, their keys inserted in different orders,
\* print to the same text, and in the text the keys of every mapping (the
\* value itself, and the mappings inside it) stand in strictly ascending order.
C1_OrderIndependent ==
    pc = "printed" =>
        /\ text = twinText
        /\ value.t = "obj" => KeysAscendIn(text, value, 1)
        /\ \A c \in Children(value) :
              c.t = "obj" =>
                  /\ IndexOf(text, sortedPrint(c, 1)) > 0
                  /\ KeysAscendIn(sortedPrint(c, 1), c, 2)

C1_Witness ==
    /\ pc = "printed"
    /\ value = Obj(<<kv("b", Obj(<<kv("b", Num(1)), kv("a", Num(2))>>)), kv("B", Num(5))>>)
    /\ twin = Obj(<<kv("B", Num(5)), kv("b", Obj(<<kv("a", Num(2)), kv("b", Num(1))>>))>>)
    /\ text = "{\n    B: 5,\n    b: {\n        a: 2,\n        b: 1\n    }\n}"
    /\ twinText = text

\* The text of a sequence whose elements, printed one level deep, are r, laid
\* out in ascending order of those printed forms.
RenderedOrderText(r) ==
    LET q == sortByKey([k \in 1..Len(r) |-> [key |-> r[k], item |-> r[k]]])
        line(k) == "\n" \o indent(1) \o q[k].item \o (IF k < Len(q) THEN "," ELSE "")
        RECURSIVE lines(_)
        lines(k) == IF k > Len(q) THEN "" ELSE line(k) \o lines(k + 1)
    IN  IF Len(r) = 0 THEN "[]" ELSE "[" \o lines(1) \o "\n]"

\* C2: the elements of a printed sequence stand in the text in ascending
\* order of their own printed forms, whatever order they had.
C2_RenderedOrder ==
    (pc = "printed" /\ value.t = "arr") =>
        text = RenderedOrderText([k \in 1..Len(value.items) |-> sortedPrint(value.items[k], 1)])

====
